---------------------------- MODULE Spec2Model ----------------------------
(***************************************************************************)
(* Model of the two PDF command-line tools of pdf-processor/scripts:       *)
(*   extract_pages.py  <pdf_path> <page_numbers>                           *)
(*   get_metadata.py   <path_to_pdf>                                       *)
(*                                                                         *)
(* A run of a tool is a sequence of steps of its main(); the position is   *)
(* pc.  The pdfplumber library and the file system are the environment:    *)
(* every call into them either raises (an exception message is recorded in *)
(* exc) or returns a value drawn from a bounded set, and each call is      *)
(* appended to log, so that the order of the I/O of a run can be stated.   *)
(*                                                                         *)
(* Strings are sequences of one-character strings.  A Python value that    *)
(* may be None is an Optional record: None or Some(v).                     *)
(***************************************************************************)
EXTENDS Integers, Sequences, FiniteSets, TLC

VARIABLES
    tool,             \* which script runs: "extract_pages" or "get_metadata"
    argv,             \* sys.argv[1:], the command-line arguments
    pc,               \* position in main()
    requested_pages,  \* extract_pages.py: the parsed page list
    pdf,              \* the opened document: the sequence of its pages
    handle,           \* "none", "open" or "closed": the document's file handle
    total_pages,      \* extract_pages.py: len(pdf.pages)
    results,          \* extract_pages.py: the PageResults accumulated so far
    idx,              \* extract_pages.py: position of the for loop in requested_pages
    exc,              \* the exception being propagated, None when there is none
    stdout,           \* the documents printed on standard output
    stderr,           \* the diagnostics printed on the error stream
    exit_code,        \* the exit code once pc = "exit", -1 before
    log,              \* the calls made to the file system and to pdfplumber, in order
    is_file,          \* get_metadata.py: what os.path.isfile returned
    fs_size,          \* get_metadata.py: what the file system reported as size
    file_size,        \* get_metadata.py: local of get_metadata
    page_count,       \* get_metadata.py: local of get_metadata
    first_page_text,  \* get_metadata.py: local of get_metadata
    page,             \* page under extraction (specification SpecPage)
    out,              \* extract_page's result for page (SpecPage)
    again,            \* the tables of out, normalized a second time (SpecPage)
    grown             \* number of pieces the library added to page (SpecPage)

run_vars  == <<tool, argv, pc, requested_pages, pdf, handle, total_pages, results, idx,
               exc, stdout, stderr, exit_code, log, is_file, fs_size, file_size,
               page_count, first_page_text>>
page_vars == <<page, out, again, grown>>
vars      == <<run_vars, page_vars>>

-----------------------------------------------------------------------------
(* Bounds of the model *)

MaxLen     == 5   \* longest page_numbers argument, in characters
MaxArgs    == 3   \* most command-line arguments given
MaxPages   == 2   \* most pages of a document
MaxSize    == 2   \* largest file size reported
MaxGrow    == 5   \* most pieces (tables, rows, cells, characters) of a page's tables

-----------------------------------------------------------------------------
(* Python values *)

None    == [some |-> FALSE]
Some(v) == [some |-> TRUE, v |-> v]

\* Python's  x or ""  for an optional string, and  x or []  for an optional list:
\* None and the empty sequence are both falsy.
OrEmpty(x) == IF x.some /\ x.v # <<>> THEN x.v ELSE <<>>

\* The whitespace str.strip() removes; the space stands for all of it.
Whitespace == {" "}
Digits     == {"0", "1", "2", "3", "4", "5", "6", "7", "8", "9"}

DigitVal(c) ==
    CASE c = "0" -> 0 [] c = "1" -> 1 [] c = "2" -> 2 [] c = "3" -> 3 [] c = "4" -> 4
      [] c = "5" -> 5 [] c = "6" -> 6 [] c = "7" -> 7 [] c = "8" -> 8 [] c = "9" -> 9

DigitChar(d) == <<"0", "1", "2", "3", "4", "5", "6", "7", "8", "9">>[d + 1]

\* str.strip(): drop the leading and the trailing whitespace.
RECURSIVE LStrip(_)
LStrip(s) == IF s # <<>> /\ Head(s) \in Whitespace THEN LStrip(Tail(s)) ELSE s

RECURSIVE RStrip(_)
RStrip(s) == IF s # <<>> /\ s[Len(s)] \in Whitespace
             THEN RStrip(SubSeq(s, 1, Len(s) - 1)) ELSE s

\* A strip that drops at most one whitespace character on each side.
StripOnce(s) ==
    LET a == IF s # <<>> /\ Head(s) \in Whitespace THEN Tail(s) ELSE s
    IN  IF a # <<>> /\ a[Len(a)] \in Whitespace THEN SubSeq(a, 1, Len(a) - 1) ELSE a

Strip(s) == RStrip(LStrip(s))

\* str.split(","): the pieces between the commas, empty pieces included.
RECURSIVE Split(_)
Split(s) ==
    IF \E i \in 1..Len(s) : s[i] = ","
    THEN LET i == CHOOSE k \in 1..Len(s) : s[k] = "," /\ \A j \in 1..(k - 1) : s[j] # ","
         IN  <<SubSeq(s, 1, i - 1)>> \o Split(SubSeq(s, i + 1, Len(s)))
    ELSE <<s>>

\* int(s) accepts an optional sign followed by decimal digits, whitespace around it
\* ignored; anything else raises ValueError.  (Underscores between digits and
\* non-ASCII digits, which int also accepts, are not in Alphabet.)
IntBody(s) == LET t == Strip(s) IN IF t # <<>> /\ Head(t) \in {"+", "-"} THEN Tail(t) ELSE t

IsInt(s) == IntBody(s) # <<>> /\ \A i \in 1..Len(IntBody(s)) : IntBody(s)[i] \in Digits

RECURSIVE NatVal(_)
NatVal(ds) == IF ds = <<>> THEN 0
              ELSE 10 * NatVal(SubSeq(ds, 1, Len(ds) - 1)) + DigitVal(ds[Len(ds)])

IntVal(s) == IF Strip(s) # <<>> /\ Head(Strip(s)) = "-" THEN 0 - NatVal(IntBody(s))
             ELSE NatVal(IntBody(s))

\* str(n) of an integer, as an f-string formats it.
RECURSIVE NatStr(_)
NatStr(n) == IF n < 10 THEN <<DigitChar(n)>> ELSE NatStr(n \div 10) \o <<DigitChar(n % 10)>>

IntStr(n) == IF n < 0 THEN <<"-">> \o NatStr(0 - n) ELSE NatStr(n)


-----------------------------------------------------------------------------
(* The inputs of a run *)

BSeq(S, n) == UNION {[1..k -> S] : k \in 0..n}

Tools     == {"extract_pages", "get_metadata"}
\* extract_pages.py passes its path on to pdfplumber only; get_metadata.py also prints it.
Paths(t)  == IF t = "get_metadata" THEN {<<"f">>, <<"g">>} ELSE {<<"f">>}
Alphabet  == {"0", "1", "-", " ", ",", "a"}
PageStrs  == BSeq(Alphabet, MaxLen)
ExtraArgs == {<<"x">>}

Arg2(t) == IF t = "extract_pages" THEN PageStrs ELSE ExtraArgs

Argvs(t) ==
    {<<>>} \cup {<<p>> : p \in Paths(t)}
           \cup {<<p, s>> \o e : p \in Paths(t), s \in Arg2(t), e \in BSeq(ExtraArgs, MaxArgs - 2)}

\* What pdfplumber can report for a page: its text and its tables, either possibly
\* None; a table is a sequence of rows, a row a sequence of possibly-None cells.
PageNone  == [text |-> None, tables |-> None]
PageEmpty == [text |-> Some(<<>>), tables |-> Some(<<>>)]
PageFull  == [text   |-> Some(<<" ", "t">>),
              tables |-> Some(<< << <<None, Some(<<" ", "a", " ">>)>>, <<Some(<<>>)>> >> >>)]

PageKinds == {PageNone, PageEmpty, PageFull}
Docs      == BSeq(PageKinds, MaxPages)

\* str(e) of the exceptions the environment raises.
OpenFault    == <<"cannot open">>
PagesFault   == <<"cannot read pages">>
TextFault    == <<"cannot extract text">>
TablesFault  == <<"cannot extract tables">>
SizeFault    == <<"cannot stat">>

-----------------------------------------------------------------------------
(* extract_pages.py *)

NormalizeCell(cell) == Strip(OrEmpty(cell))

\* A normalization that leaves the missing cells out of the row.
NormalizeRowDropMissing(row) ==
    LET kept == SelectSeq(row, LAMBDA c : c.some)
    IN  [i \in 1..Len(kept) |-> NormalizeCell(kept[i])]

NormalizeRow(row) == [i \in 1..Len(row) |-> NormalizeCell(row[i])]

NormalizeTable(table) == [i \in 1..Len(table) |-> NormalizeRow(table[i])]

NormalizeTables(raw_tables) == [i \in 1..Len(raw_tables) |-> NormalizeTable(raw_tables[i])]

extract_page(p, page_num) ==
    [pageNum |-> page_num,
     text    |-> OrEmpty(p.text),
     tables  |-> NormalizeTables(OrEmpty(p.tables))]

OutOfRange(page_num, total) == page_num < 0 \/ page_num >= total

\* A notice that counts the pages from 1.
PlaceholderOneBased(page_num, total) ==
    [pageNum |-> page_num,
     text    |-> <<"[Page ">> \o IntStr(page_num + 1) \o <<" out of range -- PDF has ">>
                 \o IntStr(total) \o <<" pages]">>,
     tables  |-> <<>>]

\* The notice for an index outside the document; the dash of the source's message
\* is written "--" here.
Placeholder(page_num, total) ==
    [pageNum |-> page_num,
     text    |-> <<"[Page ">> \o IntStr(page_num) \o <<" out of range -- PDF has ">>
                 \o IntStr(total) \o <<" pages]">>,
     tables  |-> <<>>]

UsageX == <<"Usage: extract_pages.py <pdf_path> <page_numbers>">>

InvalidPages(raw) == <<"Invalid page numbers: ">> \o raw

pdf_path         == argv[1]
page_numbers_str == argv[2]

\* A parse that skips the entries that are empty once stripped.
ParsePagesSkipEmpty(raw) ==
    LET ps == SelectSeq(Split(raw), LAMBDA e : Strip(e) # <<>>)
    IN  IF \A i \in 1..Len(ps) : IsInt(Strip(ps[i]))
        THEN Some([i \in 1..Len(ps) |-> IntVal(Strip(ps[i]))])
        ELSE None

\* [int(p.strip()) for p in page_numbers_str.split(",")], None on ValueError
ParsePages(raw) ==
    LET ps == Split(raw)
    IN  IF \A i \in 1..Len(ps) : IsInt(Strip(ps[i]))
        THEN Some([i \in 1..Len(ps) |-> IntVal(Strip(ps[i]))])
        ELSE None

TooFewArgsX == Len(argv) + 1 < 3

Exit(code) == pc' = "exit" /\ exit_code' = code

XUsage ==
    /\ tool = "extract_pages" /\ pc = "start"
    /\ TooFewArgsX
    /\ stderr' = Append(stderr, [error |-> UsageX])
    /\ log' = Append(log, "stderr")
    /\ Exit(1)
    /\ UNCHANGED <<tool, argv, requested_pages, pdf, handle, total_pages, results, idx,
                   exc, stdout, is_file, fs_size, file_size, page_count,
                   first_page_text, page_vars>>

XParse ==
    /\ tool = "extract_pages" /\ pc = "start"
    /\ ~TooFewArgsX
    /\ ParsePages(page_numbers_str).some
    /\ requested_pages' = ParsePages(page_numbers_str).v
    /\ pc' = "open"
    /\ UNCHANGED <<tool, argv, pdf, handle, total_pages, results, idx, exc, stdout,
                   stderr, exit_code, log, is_file, fs_size, file_size, page_count,
                   first_page_text, page_vars>>

XInvalid ==
    /\ tool = "extract_pages" /\ pc = "start"
    /\ ~TooFewArgsX
    /\ ~ParsePages(page_numbers_str).some
    /\ stderr' = Append(stderr, [error |-> InvalidPages(page_numbers_str)])
    /\ log' = Append(log, "stderr")
    /\ Exit(1)
    /\ UNCHANGED <<tool, argv, requested_pages, pdf, handle, total_pages, results, idx,
                   exc, stdout, is_file, fs_size, file_size, page_count,
                   first_page_text, page_vars>>

\* pdfplumber.open(pdf_path) raises: the with block is never entered.
XOpenFault ==
    /\ tool = "extract_pages" /\ pc = "open"
    /\ log' = Append(log, "open")
    /\ exc' = Some(OpenFault)
    /\ pc' = "except"
    /\ UNCHANGED <<tool, argv, requested_pages, pdf, handle, total_pages, results, idx,
                   stdout, stderr, exit_code, is_file, fs_size, file_size, page_count,
                   first_page_text, page_vars>>

XOpen ==
    /\ tool = "extract_pages" /\ pc = "open"
    /\ \E doc \in Docs : pdf' = doc
    /\ log' = Append(log, "open")
    /\ handle' = "open"
    /\ pc' = "count"
    /\ UNCHANGED <<tool, argv, requested_pages, total_pages, results, idx, exc, stdout,
                   stderr, exit_code, is_file, fs_size, file_size, page_count,
                   first_page_text, page_vars>>

\* total_pages = len(pdf.pages); results = []
XCount ==
    /\ tool = "extract_pages" /\ pc = "count"
    /\ total_pages' = Len(pdf)
    /\ results' = <<>>
    /\ idx' = 1
    /\ pc' = "loop"
    /\ UNCHANGED <<tool, argv, requested_pages, pdf, handle, exc, stdout, stderr,
                   exit_code, log, is_file, fs_size, file_size, page_count,
                   first_page_text, page_vars>>

\* pdf.pages raises while the page tree is read.
XCountFault ==
    /\ tool = "extract_pages" /\ pc = "count"
    /\ exc' = Some(PagesFault)
    /\ pc' = "with_exit"
    /\ UNCHANGED <<tool, argv, requested_pages, pdf, handle, total_pages, results, idx,
                   stdout, stderr, exit_code, log, is_file, fs_size, file_size,
                   page_count, first_page_text, page_vars>>

page_num == requested_pages[idx]

XOutOfRange ==
    /\ tool = "extract_pages" /\ pc = "loop"
    /\ idx <= Len(requested_pages)
    /\ OutOfRange(page_num, total_pages)
    /\ results' = Append(results, Placeholder(page_num, total_pages))
    /\ idx' = idx + 1
    /\ UNCHANGED <<tool, argv, pc, requested_pages, pdf, handle, total_pages, exc,
                   stdout, stderr, exit_code, log, is_file, fs_size, file_size,
                   page_count, first_page_text, page_vars>>

\* An extraction that serves a repeated index once only.
XExtractCached ==
    /\ tool = "extract_pages" /\ pc = "loop"
    /\ idx <= Len(requested_pages)
    /\ ~OutOfRange(page_num, total_pages)
    /\ IF \E i \in 1..Len(results) : results[i].pageNum = page_num
       THEN UNCHANGED <<results, log>>
       ELSE /\ results' = Append(results, extract_page(pdf[page_num + 1], page_num))
            /\ log' = log \o <<"extract_text", "extract_tables">>
    /\ idx' = idx + 1
    /\ UNCHANGED <<tool, argv, pc, requested_pages, pdf, handle, total_pages, exc,
                   stdout, stderr, exit_code, is_file, fs_size, file_size, page_count,
                   first_page_text, page_vars>>

XExtract ==
    /\ tool = "extract_pages" /\ pc = "loop"
    /\ idx <= Len(requested_pages)
    /\ ~OutOfRange(page_num, total_pages)
    /\ results' = Append(results, extract_page(pdf[page_num + 1], page_num))
    /\ log' = log \o <<"extract_text", "extract_tables">>
    /\ idx' = idx + 1
    /\ UNCHANGED <<tool, argv, pc, requested_pages, pdf, handle, total_pages, exc,
                   stdout, stderr, exit_code, is_file, fs_size, file_size, page_count,
                   first_page_text, page_vars>>

\* A fault that reaches the handler without the document being closed.
XExtractFaultLeak ==
    /\ tool = "extract_pages" /\ pc = "loop"
    /\ idx <= Len(requested_pages)
    /\ ~OutOfRange(page_num, total_pages)
    /\ log' = Append(log, "extract_text")
    /\ exc' = Some(TextFault)
    /\ pc' = "except"
    /\ UNCHANGED <<tool, argv, requested_pages, pdf, handle, total_pages, results, idx,
                   stdout, stderr, exit_code, is_file, fs_size, file_size, page_count,
                   first_page_text, page_vars>>

\* page.extract_text() or page.extract_tables() raises inside extract_page.
XExtractFault ==
    /\ tool = "extract_pages" /\ pc = "loop"
    /\ idx <= Len(requested_pages)
    /\ ~OutOfRange(page_num, total_pages)
    /\ \/ log' = Append(log, "extract_text") /\ exc' = Some(TextFault)
       \/ log' = log \o <<"extract_text", "extract_tables">> /\ exc' = Some(TablesFault)
    /\ pc' = "with_exit"
    /\ UNCHANGED <<tool, argv, requested_pages, pdf, handle, total_pages, results, idx,
                   stdout, stderr, exit_code, is_file, fs_size, file_size, page_count,
                   first_page_text, page_vars>>

XLoopDone ==
    /\ tool = "extract_pages" /\ pc = "loop"
    /\ idx > Len(requested_pages)
    /\ pc' = "with_exit"
    /\ UNCHANGED <<tool, argv, requested_pages, pdf, handle, total_pages, results, idx,
                   exc, stdout, stderr, exit_code, log, is_file, fs_size, file_size,
                   page_count, first_page_text, page_vars>>

\* The with statement's exit, normal or by an exception: the document is closed.
XWithExit ==
    /\ tool = "extract_pages" /\ pc = "with_exit"
    /\ handle' = "closed"
    /\ log' = Append(log, "close")
    /\ pc' = IF exc.some THEN "except" ELSE "emit"
    /\ UNCHANGED <<tool, argv, requested_pages, pdf, total_pages, results, idx, exc,
                   stdout, stderr, exit_code, is_file, fs_size, file_size, page_count,
                   first_page_text, page_vars>>

XEmit ==
    /\ tool = "extract_pages" /\ pc = "emit"
    /\ stdout' = Append(stdout, [pages |-> results])
    /\ log' = Append(log, "stdout")
    /\ Exit(0)
    /\ UNCHANGED <<tool, argv, requested_pages, pdf, handle, total_pages, results, idx,
                   exc, stderr, is_file, fs_size, file_size, page_count,
                   first_page_text, page_vars>>

\* A handler that also prints the pages extracted before the fault.
XExceptPartial ==
    /\ tool = "extract_pages" /\ pc = "except"
    /\ stdout' = Append(stdout, [pages |-> results])
    /\ stderr' = Append(stderr, [error |-> exc.v])
    /\ log' = log \o <<"stdout", "stderr">>
    /\ Exit(1)
    /\ UNCHANGED <<tool, argv, requested_pages, pdf, handle, total_pages, results, idx,
                   exc, is_file, fs_size, file_size, page_count, first_page_text,
                   page_vars>>

XExcept ==
    /\ tool = "extract_pages" /\ pc = "except"
    /\ stderr' = Append(stderr, [error |-> exc.v])
    /\ log' = Append(log, "stderr")
    /\ Exit(1)
    /\ UNCHANGED <<tool, argv, requested_pages, pdf, handle, total_pages, results, idx,
                   exc, stdout, is_file, fs_size, file_size, page_count,
                   first_page_text, page_vars>>

ExtractPagesMain ==
    \/ XUsage \/ XParse \/ XInvalid \/ XOpenFault \/ XOpen \/ XCount \/ XCountFault
    \/ XOutOfRange \/ XExtract \/ XExtractFault \/ XLoopDone \/ XWithExit \/ XEmit
    \/ XExcept

-----------------------------------------------------------------------------
(* get_metadata.py *)

UsageM == <<"Usage: get_metadata.py <path_to_pdf>">>

NotFound(path) == <<"Error: file not found: ">> \o path

ExtractError(msg) == <<"Error extracting metadata: ">> \o msg

WrongArgsM == Len(argv) + 1 # 2

\* The dictionary get_metadata returns.
metadata ==
    [pageCount     |-> page_count,
     fileSize      |-> file_size,
     firstPageText |-> first_page_text]

\* A first-page text with its surrounding whitespace trimmed.
FirstPageTextStripped(text) == Strip(OrEmpty(text))

\* first_page_text after  text = pdf.pages[0].extract_text()  returned text
FirstPageText(text) == IF text.some /\ text.v # <<>> THEN text.v ELSE <<>>

MUsage ==
    /\ tool = "get_metadata" /\ pc = "start"
    /\ WrongArgsM
    /\ stderr' = Append(stderr, UsageM)
    /\ log' = Append(log, "stderr")
    /\ Exit(1)
    /\ UNCHANGED <<tool, argv, requested_pages, pdf, handle, total_pages, results, idx,
                   exc, stdout, is_file, fs_size, file_size, page_count,
                   first_page_text, page_vars>>

\* A not-found report that does not end the run.
MNotFoundNoExit ==
    /\ tool = "get_metadata" /\ pc = "start"
    /\ ~WrongArgsM
    /\ is_file' = FALSE
    /\ stderr' = Append(stderr, NotFound(pdf_path))
    /\ log' = log \o <<"isfile", "stderr">>
    /\ pc' = "getsize"
    /\ UNCHANGED <<tool, argv, requested_pages, pdf, handle, total_pages, results, idx,
                   exc, stdout, exit_code, fs_size, file_size, page_count,
                   first_page_text, page_vars>>

\* os.path.isfile(pdf_path) answers False
MNotFound ==
    /\ tool = "get_metadata" /\ pc = "start"
    /\ ~WrongArgsM
    /\ is_file' = FALSE
    /\ stderr' = Append(stderr, NotFound(pdf_path))
    /\ log' = log \o <<"isfile", "stderr">>
    /\ Exit(1)
    /\ UNCHANGED <<tool, argv, requested_pages, pdf, handle, total_pages, results, idx,
                   exc, stdout, fs_size, file_size, page_count, first_page_text,
                   page_vars>>

\* os.path.isfile(pdf_path) answers True
MIsFile ==
    /\ tool = "get_metadata" /\ pc = "start"
    /\ ~WrongArgsM
    /\ is_file' = TRUE
    /\ log' = Append(log, "isfile")
    /\ pc' = "getsize"
    /\ UNCHANGED <<tool, argv, requested_pages, pdf, handle, total_pages, results, idx,
                   exc, stdout, stderr, exit_code, fs_size, file_size, page_count,
                   first_page_text, page_vars>>

MGetSize ==
    /\ tool = "get_metadata" /\ pc = "getsize"
    /\ \E n \in 0..MaxSize : fs_size' = n
    /\ file_size' = fs_size'
    /\ log' = Append(log, "getsize")
    /\ pc' = "open"
    /\ UNCHANGED <<tool, argv, requested_pages, pdf, handle, total_pages, results, idx,
                   exc, stdout, stderr, exit_code, is_file, page_count,
                   first_page_text, page_vars>>

\* os.path.getsize raises (the file vanished, or may not be read)
MGetSizeFault ==
    /\ tool = "get_metadata" /\ pc = "getsize"
    /\ log' = Append(log, "getsize")
    /\ exc' = Some(SizeFault)
    /\ pc' = "except"
    /\ UNCHANGED <<tool, argv, requested_pages, pdf, handle, total_pages, results, idx,
                   stdout, stderr, exit_code, is_file, fs_size, file_size, page_count,
                   first_page_text, page_vars>>

MOpenFault ==
    /\ tool = "get_metadata" /\ pc = "open"
    /\ log' = Append(log, "open")
    /\ exc' = Some(OpenFault)
    /\ pc' = "except"
    /\ UNCHANGED <<tool, argv, requested_pages, pdf, handle, total_pages, results, idx,
                   stdout, stderr, exit_code, is_file, fs_size, file_size, page_count,
                   first_page_text, page_vars>>

MOpen ==
    /\ tool = "get_metadata" /\ pc = "open"
    /\ \E doc \in Docs : pdf' = doc
    /\ log' = Append(log, "open")
    /\ handle' = "open"
    /\ pc' = "count"
    /\ UNCHANGED <<tool, argv, requested_pages, total_pages, results, idx, exc, stdout,
                   stderr, exit_code, is_file, fs_size, file_size, page_count,
                   first_page_text, page_vars>>

\* page_count = len(pdf.pages); first_page_text = ""
MCount ==
    /\ tool = "get_metadata" /\ pc = "count"
    /\ page_count' = Len(pdf)
    /\ first_page_text' = <<>>
    /\ pc' = IF page_count' > 0 THEN "first" ELSE "with_exit"
    /\ UNCHANGED <<tool, argv, requested_pages, pdf, handle, total_pages, results, idx,
                   exc, stdout, stderr, exit_code, log, is_file, fs_size, file_size,
                   page_vars>>

MCountFault ==
    /\ tool = "get_metadata" /\ pc = "count"
    /\ exc' = Some(PagesFault)
    /\ pc' = "with_exit"
    /\ UNCHANGED <<tool, argv, requested_pages, pdf, handle, total_pages, results, idx,
                   stdout, stderr, exit_code, log, is_file, fs_size, file_size,
                   page_count, first_page_text, page_vars>>

MFirstPage ==
    /\ tool = "get_metadata" /\ pc = "first"
    /\ first_page_text' = FirstPageText(pdf[1].text)
    /\ log' = Append(log, "extract_text")
    /\ pc' = "with_exit"
    /\ UNCHANGED <<tool, argv, requested_pages, pdf, handle, total_pages, results, idx,
                   exc, stdout, stderr, exit_code, is_file, fs_size, file_size,
                   page_count, page_vars>>

MFirstPageFault ==
    /\ tool = "get_metadata" /\ pc = "first"
    /\ log' = Append(log, "extract_text")
    /\ exc' = Some(TextFault)
    /\ pc' = "with_exit"
    /\ UNCHANGED <<tool, argv, requested_pages, pdf, handle, total_pages, results, idx,
                   stdout, stderr, exit_code, is_file, fs_size, file_size, page_count,
                   first_page_text, page_vars>>

MWithExit ==
    /\ tool = "get_metadata" /\ pc = "with_exit"
    /\ handle' = "closed"
    /\ log' = Append(log, "close")
    /\ pc' = IF exc.some THEN "except" ELSE "emit"
    /\ UNCHANGED <<tool, argv, requested_pages, pdf, total_pages, results, idx, exc,
                   stdout, stderr, exit_code, is_file, fs_size, file_size, page_count,
                   first_page_text, page_vars>>

MEmit ==
    /\ tool = "get_metadata" /\ pc = "emit"
    /\ stdout' = Append(stdout, metadata)
    /\ log' = Append(log, "stdout")
    /\ Exit(0)
    /\ UNCHANGED <<tool, argv, requested_pages, pdf, handle, total_pages, results, idx,
                   exc, stderr, is_file, fs_size, file_size, page_count,
                   first_page_text, page_vars>>

MExcept ==
    /\ tool = "get_metadata" /\ pc = "except"
    /\ stderr' = Append(stderr, ExtractError(exc.v))
    /\ log' = Append(log, "stderr")
    /\ Exit(1)
    /\ UNCHANGED <<tool, argv, requested_pages, pdf, handle, total_pages, results, idx,
                   exc, stdout, is_file, fs_size, file_size, page_count,
                   first_page_text, page_vars>>

GetMetadataMain ==
    \/ MUsage \/ MNotFound \/ MIsFile \/ MGetSize \/ MGetSizeFault \/ MOpenFault
    \/ MOpen \/ MCount \/ MCountFault \/ MFirstPage \/ MFirstPageFault \/ MWithExit
    \/ MEmit \/ MExcept

-----------------------------------------------------------------------------
(* The runs of the two tools *)

IdlePage == page = PageNone /\ out = None /\ again = None /\ grown = 0

IdleRun ==
    /\ requested_pages = <<>>
    /\ pdf = <<>>
    /\ handle = "none"
    /\ total_pages = 0
    /\ results = <<>>
    /\ idx = 0
    /\ exc = None
    /\ stdout = <<>>
    /\ stderr = <<>>
    /\ exit_code = -1
    /\ log = <<>>
    /\ is_file = FALSE
    /\ fs_size = 0
    /\ file_size = 0
    /\ page_count = 0
    /\ first_page_text = <<>>

Init ==
    /\ tool \in Tools
    /\ argv \in Argvs(tool)
    /\ pc = "start"
    /\ IdleRun
    /\ IdlePage

Next == ExtractPagesMain \/ GetMetadataMain

Spec == Init /\ [][Next]_vars

-----------------------------------------------------------------------------
(* extract_page on the pages the library can report.  The library's answer *)
(* for a page is built piece by piece: a new table, a new row in the last  *)
(* table, a new cell (missing or empty) in the last row, one more          *)
(* character in the last cell; extract_page is then applied to it, and the *)
(* normalization is applied once more to the tables it returned.           *)

CellChars == {" ", "a"}
Texts     == {None, Some(<<>>), Some(<<" ", "t">>)}
Seeds     == {None, Some(<<>>), Some(<< << <<>> >> >>)}

raw_tables == page.tables.v
LastTable  == raw_tables[Len(raw_tables)]
LastRow    == LastTable[Len(LastTable)]
LastCell   == LastRow[Len(LastRow)]

HasTable == page.tables.some /\ raw_tables # <<>>
HasRow   == HasTable /\ LastTable # <<>>
HasCell  == HasRow /\ LastRow # <<>>

WithTables(ts)  == [page EXCEPT !.tables = Some(ts)]
WithLastTable(t) == WithTables([raw_tables EXCEPT ![Len(raw_tables)] = t])
WithLastRow(r)  == WithLastTable([LastTable EXCEPT ![Len(LastTable)] = r])
WithLastCell(c) == WithLastRow([LastRow EXCEPT ![Len(LastRow)] = c])

Grow == pc = "build" /\ grown < MaxGrow /\ grown' = grown + 1
             /\ UNCHANGED <<run_vars, out, again>>

GrowTable == Grow /\ page.tables.some /\ page' = WithTables(Append(raw_tables, <<>>))

GrowRow == Grow /\ HasTable /\ page' = WithLastTable(Append(LastTable, <<>>))

GrowCell == Grow /\ HasRow
              /\ \E c \in {None, Some(<<>>)} : page' = WithLastRow(Append(LastRow, c))

GrowChar == Grow /\ HasCell /\ LastCell.some
              /\ \E ch \in CellChars : page' = WithLastCell(Some(Append(LastCell.v, ch)))

\* The strings of a normalized table, passed as cells once more.
AsCells(tables) ==
    [i \in 1..Len(tables) |->
        [j \in 1..Len(tables[i]) |->
            [k \in 1..Len(tables[i][j]) |-> Some(tables[i][j][k])]]]

PExtract ==
    /\ pc = "build"
    /\ out' = Some(extract_page(page, 0))
    /\ pc' = "extracted"
    /\ UNCHANGED <<tool, argv, requested_pages, pdf, handle, total_pages, results, idx,
                   exc, stdout, stderr, exit_code, log, is_file, fs_size, file_size,
                   page_count, first_page_text, page, again, grown>>

PRenormalize ==
    /\ pc = "extracted"
    /\ again' = Some(NormalizeTables(AsCells(out.v.tables)))
    /\ pc' = "renormalized"
    /\ UNCHANGED <<tool, argv, requested_pages, pdf, handle, total_pages, results, idx,
                   exc, stdout, stderr, exit_code, log, is_file, fs_size, file_size,
                   page_count, first_page_text, page, out, grown>>

InitPage ==
    /\ tool = "extract_pages"
    /\ argv = <<>>
    /\ pc = "build"
    /\ IdleRun
    /\ page \in {[text |-> t, tables |-> s] : t \in Texts, s \in Seeds}
    /\ out = None
    /\ again = None
    /\ grown = 0

NextPage == GrowTable \/ GrowRow \/ GrowCell \/ GrowChar \/ PExtract \/ PRenormalize

SpecPage == InitPage /\ [][NextPage]_vars

-----------------------------------------------------------------------------
(* The properties *)

Logged(e) == \E i \in 1..Len(log) : log[i] = e

IsStr(x) == x \in Seq(STRING)

\* The entries of the page list as given, and the index the i-th entry asks for.
Entries      == Split(argv[2])
Requested(i) == IntVal(Entries[i])
AllEntriesParse == \A i \in 1..Len(Entries) : IsInt(Entries[i])

InRange(n) == 0 <= n /\ n < Len(pdf)

\* A run of extract_pages.py that opened the document and met no fault.
CleanExtractRun ==
    /\ tool = "extract_pages" /\ pc = "exit"
    /\ handle # "none" /\ ~exc.some

\* C1: when the page list parses, every index is inside [0, pageCount) and no fault
\* occurs, the run prints one document whose pages has one PageResult per requested
\* index, the i-th with pageNum the i-th requested index, repeated indices included.
C1_OnePerRequestedInOrder ==
    (CleanExtractRun /\ \A i \in 1..Len(Entries) : InRange(Requested(i)))
    => /\ exit_code = 0
       /\ Len(stdout) = 1
       /\ Len(stdout[1].pages) = Len(Entries)
       /\ \A i \in 1..Len(Entries) : stdout[1].pages[i].pageNum = Requested(i)

C1_Witness ==
    /\ CleanExtractRun /\ exit_code = 0
    /\ argv[2] = <<"1", ",", "0", ",", "1">>
    /\ Len(pdf) = 2

\* text is the out-of-range notice naming index n and page count total: the two
\* numbers printed in it read back as n and total.
NamesIndexAndCount(text, n, total) ==
    /\ Len(text) >= 5
    /\ text[1] = "[Page " /\ text[Len(text)] = " pages]"
    /\ \E k \in 3..(Len(text) - 2) :
          /\ text[k] = " out of range -- PDF has "
          /\ IsInt(SubSeq(text, 2, k - 1)) /\ IntVal(SubSeq(text, 2, k - 1)) = n
          /\ IsInt(SubSeq(text, k + 1, Len(text) - 1))
          /\ IntVal(SubSeq(text, k + 1, Len(text) - 1)) = total

\* C2: a requested index that is negative or >= the page count gets, at its position,
\* a placeholder with that pageNum, a text naming the index and the page count, and no
\* tables; the in-range indices get their page's text; the run prints the success
\* document, exits 0 and prints no error.
C2_OutOfRangePlaceholder ==
    CleanExtractRun
    => /\ exit_code = 0 /\ stderr = <<>> /\ Len(stdout) = 1
       /\ Len(stdout[1].pages) = Len(Entries)
       /\ \A i \in 1..Len(Entries) :
             LET r == stdout[1].pages[i]
                 n == Requested(i)
             IN  IF InRange(n)
                 THEN r.text = (IF pdf[n + 1].text.some THEN pdf[n + 1].text.v ELSE <<>>)
                 ELSE /\ r.pageNum = n
                      /\ r.tables = <<>>
                      /\ NamesIndexAndCount(r.text, n, Len(pdf))

C2_Witness ==
    /\ CleanExtractRun /\ exit_code = 0
    /\ argv[2] = <<"0", ",", "1", "1">>
    /\ pdf = <<PageFull>>

\* C3: nothing is printed before the run ends; a run that ended printed either one
\* document on standard output with exit code 0 and nothing on the error stream, or one
\* diagnostic on the error stream with a non-zero exit code and nothing on standard
\* output; once a fault was raised nothing is ever on standard output.
C3_ExactlyOneOutput ==
    /\ pc # "exit" => stdout = <<>> /\ stderr = <<>>
    /\ pc = "exit" =>
          \/ exit_code = 0 /\ Len(stdout) = 1 /\ stderr = <<>>
          \/ exit_code > 0 /\ Len(stderr) = 1 /\ stdout = <<>>
    /\ exc.some => stdout = <<>>

C3_Witness ==
    /\ tool = "extract_pages" /\ pc = "exit"
    /\ exc.some /\ Len(results) >= 1
    /\ exit_code = 1

WrongArgCount == IF tool = "extract_pages" THEN Len(argv) # 2 ELSE Len(argv) # 1

UsageOf == IF tool = "extract_pages" THEN [error |-> UsageX] ELSE UsageM

\* C4: a run given any number of arguments other than exactly two (extract_pages.py)
\* or exactly one (get_metadata.py) touches neither the file system nor the PDF, and
\* ends with exit code 1 and the usage message on the error stream.
C4_WrongArgCountRejected ==
    WrongArgCount
    => /\ \A i \in 1..Len(log) : log[i] = "stderr"
       /\ pc = "exit" => exit_code = 1 /\ stdout = <<>> /\ stderr = <<UsageOf>>

\* C5: when an entry of the page list is no integer, the document is never opened,
\* and the run ends with exit code 1 and the error 'Invalid page numbers: ' followed
\* by the argument as given.
C5_InvalidPagesRejected ==
    (tool = "extract_pages" /\ Len(argv) >= 2 /\ ~AllEntriesParse)
    => /\ handle = "none" /\ ~Logged("open")
       /\ pc = "exit" =>
             /\ exit_code = 1 /\ stdout = <<>>
             /\ stderr = <<[error |-> <<"Invalid page numbers: ">> \o argv[2]]>>

C5_Witness ==
    /\ tool = "extract_pages" /\ pc = "exit"
    /\ Len(argv) >= 2
    /\ argv[2] = <<"1", ",", "a">>
    /\ Len(stderr) = 1

\* C6: when os.path.isfile answered False, the run has ended with exit code 1 and the
\* 'file not found' message followed by the path, and never asked for the file's size
\* nor opened it.
C6_NotFoundBeforeOpen ==
    (tool = "get_metadata" /\ Logged("isfile") /\ ~is_file)
    => /\ pc = "exit" /\ exit_code = 1 /\ stdout = <<>>
       /\ stderr = <<(<<"Error: file not found: ">> \o argv[1])>>
       /\ ~Logged("getsize") /\ ~Logged("open") /\ handle = "none"

C6_Witness ==
    /\ tool = "get_metadata" /\ pc = "exit"
    /\ Logged("isfile") /\ ~is_file
    /\ argv = << <<"g">> >>

\* C7: no run ends with the document's handle open, and while the handle is open
\* nothing has been printed, on standard output or on the error stream: an opened
\* document is closed before the success document or the diagnostic is printed.
C7_HandleReleased ==
    /\ pc = "exit" => handle # "open"
    /\ handle = "open" => stdout = <<>> /\ stderr = <<>>
    /\ (Logged("stdout") \/ Logged("stderr")) /\ handle # "none" => Logged("close")

C7_Witness ==
    /\ pc = "exit" /\ exit_code = 1
    /\ handle = "closed"
    /\ exc = Some(TextFault)
    /\ Len(results) >= 1

\* C8: a successful run of get_metadata.py prints pageCount = the number of pages of
\* the opened document, fileSize = the size the file system reported, and
\* firstPageText a string: empty for a document without pages (no text extraction
\* is attempted then) or when page 0 yields None or "", else the text of page 0.
C8_Metadata ==
    (tool = "get_metadata" /\ pc = "exit" /\ exit_code = 0)
    => /\ Len(stdout) = 1
       /\ stdout[1].pageCount = Len(pdf)
       /\ stdout[1].fileSize = fs_size
       /\ IsStr(stdout[1].firstPageText)
       /\ IF Len(pdf) = 0
          THEN stdout[1].firstPageText = <<>> /\ ~Logged("extract_text")
          ELSE IF pdf[1].text.some
               THEN stdout[1].firstPageText = pdf[1].text.v
               ELSE stdout[1].firstPageText = <<>>

C8_Witness ==
    /\ tool = "get_metadata" /\ pc = "exit" /\ exit_code = 0
    /\ pdf = <<PageFull, PageNone>>
    /\ fs_size = 2

\* t is s without its leading and trailing whitespace.
IsTrimOf(t, s) ==
    /\ t = <<>> \/ (t[1] \notin Whitespace /\ t[Len(t)] \notin Whitespace)
    /\ \E i \in 1..(Len(s) + 1) :
          /\ i + Len(t) - 1 <= Len(s)
          /\ t = SubSeq(s, i, i + Len(t) - 1)
          /\ \A j \in 1..Len(s) : (j < i \/ j > i + Len(t) - 1) => s[j] \in Whitespace

\* C9: extract_page returns the page's text, "" when the library gave None; and as
\* many tables, rows per table and cells per row as the library gave ([] for None), in
\* the same order, each cell a string: "" for a missing cell, else the raw cell without
\* its surrounding whitespace.
C9_ExtractPage ==
    pc # "build"
    => LET r   == out.v
           raw == IF page.tables.some THEN page.tables.v ELSE <<>>
       IN  /\ IsStr(r.text)
           /\ r.text = (IF page.text.some THEN page.text.v ELSE <<>>)
           /\ Len(r.tables) = Len(raw)
           /\ \A i \in 1..Len(raw) :
                 /\ Len(r.tables[i]) = Len(raw[i])
                 /\ \A j \in 1..Len(raw[i]) :
                       /\ Len(r.tables[i][j]) = Len(raw[i][j])
                       /\ \A k \in 1..Len(raw[i][j]) :
                             /\ IsStr(r.tables[i][j][k])
                             /\ IF raw[i][j][k].some
                                THEN IsTrimOf(r.tables[i][j][k], raw[i][j][k].v)
                                ELSE r.tables[i][j][k] = <<>>

C9_Witness ==
    /\ pc = "extracted"
    /\ page.text = None
    /\ page.tables = Some(<< << <<None, Some(<<" ", "a">>)>>, <<>> >> >>)

\* C10: normalizing the tables extract_page returned once more changes nothing.
C10_NormalizeIdempotent ==
    pc = "renormalized" => again.v = out.v.tables

C10_Witness ==
    /\ pc = "renormalized"
    /\ page.tables = Some(<< << <<Some(<<" ", " ", "a">>)>> >> >>)

=============================================================================
